---- MODULE Spec2Model ----
(***************************************************************************)
(* A model of the CPL calculator bot, src/bot.js.  src/unnamed/part_000   *)
(* is an earlier revision of the same file: its calcCPL, /calc, /lead and  *)
(* wizard code is the same text; it has no main-menu switch and its        *)
(* /start also schedules a promotional message.  The model follows         *)
(* src/bot.js.                                                             *)
(*                                                                         *)
(* Texts are sequences of one-character strings.  A chat message is        *)
(* dispatched the way node-telegram-bot-api dispatches it: the 'message'   *)
(* listener runs first, then every onText callback whose regular           *)
(* expression matches the text, in registration order.  Each callback is   *)
(* one action of the model.                                                *)
(*                                                                         *)
(* Numbers: a JavaScript number is modelled as NaN, +Infinity, -Infinity   *)
(* or an exact rational n/d.  Binary floating point rounding and the sign  *)
(* of zero are not modelled; the inputs of the model are short decimal     *)
(* literals.  Number() is modelled on the characters of Alphabet and of    *)
(* the listed texts: none of them forms an exponent or a radix literal     *)
(* (1e3, 0x1f), so the decimal grammar, Infinity and blank text are the    *)
(* whole of StringToNumber here.                                           *)
(***************************************************************************)
EXTENDS Integers, Sequences, FiniteSets, TLC

VARIABLES sessions, prev, cur, todo, last, sent, hist

vars == <<sessions, prev, cur, todo, last, sent, hist>>

----------------------------------------------------------------------------
(* Bounds of the model *)

\* longest reply text enumerated over Alphabet
MaxTextLen == 3

\* most tokens enumerated after /calc
MaxTokens == 5

----------------------------------------------------------------------------
(* Text *)

Digits == {"0", "1", "2", "3", "4", "5", "6", "7", "8", "9"}

\* the line terminators of ECMAScript, each a character
LineTerminators == {"\n", "\r", "U+2028", "U+2029"}

\* WhiteSpace and LineTerminator of ECMAScript: what trim, \s and Number skip
WhiteSpace ==
  {" ", "\t", "\f", "U+000B", "U+00A0", "U+FEFF", "U+1680", "U+2000",
   "U+2001", "U+2002", "U+2003", "U+2004", "U+2005", "U+2006", "U+2007",
   "U+2008", "U+2009", "U+200A", "U+202F", "U+205F", "U+3000"}
    \cup LineTerminators

DigitVal(ch) ==
  CASE ch = "0" -> 0 [] ch = "1" -> 1 [] ch = "2" -> 2 [] ch = "3" -> 3
    [] ch = "4" -> 4 [] ch = "5" -> 5 [] ch = "6" -> 6 [] ch = "7" -> 7
    [] ch = "8" -> 8 [] ch = "9" -> 9

RECURSIVE TrimLeft(_)
TrimLeft(t) ==
  IF t # <<>> /\ Head(t) \in WhiteSpace THEN TrimLeft(Tail(t)) ELSE t

RECURSIVE TrimRight(_)
TrimRight(t) ==
  IF t # <<>> /\ t[Len(t)] \in WhiteSpace
  THEN TrimRight(SubSeq(t, 1, Len(t) - 1))
  ELSE t

\* String.prototype.trim
Trim(t) == TrimRight(TrimLeft(t))

\* String.prototype.indexOf, 1-based; 0 when p does not occur in t
IndexOf(t, p) ==
  LET I == {i \in 1..(Len(t) - Len(p) + 1) : SubSeq(t, i, i + Len(p) - 1) = p}
  IN IF I = {} THEN 0 ELSE CHOOSE i \in I : \A j \in I : i <= j

\* String.prototype.replace with a string pattern: the first occurrence only
Replace(t, p, r) ==
  LET i == IndexOf(t, p)
  IN IF i = 0 THEN t
     ELSE SubSeq(t, 1, i - 1) \o r \o SubSeq(t, i + Len(p), Len(t))

\* String.prototype.startsWith
StartsWith(t, p) == Len(t) >= Len(p) /\ SubSeq(t, 1, Len(p)) = p

\* String.prototype.split(/\s+/)
RECURSIVE SplitWs(_)
SplitWs(t) ==
  LET W == {i \in 1..Len(t) : t[i] \in WhiteSpace}
  IN IF W = {} THEN <<t>>
     ELSE LET i == CHOOSE k \in W : \A j \in W : k <= j
          IN <<SubSeq(t, 1, i - 1)>> \o SplitWs(TrimLeft(SubSeq(t, i, Len(t))))

----------------------------------------------------------------------------
(* Numbers *)

Abs(n) == IF n < 0 THEN -n ELSE n

RECURSIVE GCD(_, _)
GCD(a, b) == IF b = 0 THEN a ELSE GCD(b, a % b)

RECURSIVE Pow10(_)
Pow10(k) == IF k = 0 THEN 1 ELSE 10 * Pow10(k - 1)

NaN == [k |-> "nan", n |-> 0, d |-> 1]

\* s = 1: +Infinity, s = -1: -Infinity
Inf(s) == [k |-> "inf", n |-> s, d |-> 1]

\* the finite number n/d (d # 0), in lowest terms with a positive denominator
Rat(n, d) ==
  LET g == GCD(Abs(n), Abs(d))
      s == IF d < 0 THEN -1 ELSE 1
  IN [k |-> "fin", n |-> (s * n) \div g, d |-> (s * d) \div g]

Zero == Rat(0, 1)

One == Rat(1, 1)

IsNaN(x) == x.k = "nan"

IsFinite(x) == x.k = "fin"

\* 1 or -1; zero counts as positive (the model has no negative zero)
SignOf(x) == IF x.n < 0 THEN -1 ELSE 1

\* x * y
Mul(x, y) ==
  CASE IsNaN(x) \/ IsNaN(y) -> NaN
    [] x.k = "inf" \/ y.k = "inf" ->
         IF x.n = 0 \/ y.n = 0 THEN NaN ELSE Inf(SignOf(x) * SignOf(y))
    [] OTHER -> Rat(x.n * y.n, x.d * y.d)

\* x / y
Div(x, y) ==
  CASE IsNaN(x) \/ IsNaN(y) -> NaN
    [] x.k = "inf" -> IF y.k = "inf" THEN NaN ELSE Inf(SignOf(x) * SignOf(y))
    [] y.k = "inf" -> Zero
    [] y.n = 0 -> IF x.n = 0 THEN NaN ELSE Inf(SignOf(x))
    [] OTHER -> Rat(x.n * y.d, x.d * y.n)

\* x + y
Add(x, y) ==
  CASE IsNaN(x) \/ IsNaN(y) -> NaN
    [] x.k = "inf" /\ y.k = "inf" -> IF x.n = y.n THEN x ELSE NaN
    [] x.k = "inf" -> x
    [] y.k = "inf" -> y
    [] OTHER -> Rat(x.n * y.d + y.n * x.d, x.d * y.d)

\* <<floor(r * 10^k / D), the remainder>>, one decimal digit at a time
RECURSIVE LongDiv(_, _, _)
LongDiv(r, D, k) ==
  IF k = 0 THEN <<0, r>>
  ELSE LET p == LongDiv(r, D, k - 1)
           m == p[2] * 10
       IN <<p[1] * 10 + (m \div D), m % D>>

\* +x.toFixed(f): x rounded to f decimals, a tie rounded away from zero
ToFixed(x, f) ==
  IF ~IsFinite(x) THEN x
  ELSE LET N == Abs(x.n)
           q == LongDiv(N % x.d, x.d, f)
           up == IF q[2] >= x.d - q[2] THEN 1 ELSE 0
       IN Rat(SignOf(x) * ((N \div x.d) * Pow10(f) + q[1] + up), Pow10(f))

IsDigits(t) == \A i \in 1..Len(t) : t[i] \in Digits

RECURSIVE DigitsVal(_)
DigitsVal(t) ==
  IF t = <<>> THEN 0
  ELSE DigitsVal(SubSeq(t, 1, Len(t) - 1)) * 10 + DigitVal(t[Len(t)])

Infinity == <<"I", "n", "f", "i", "n", "i", "t", "y">>

\* StrDecimalLiteral of a trimmed, non-empty text
ParseDecimal(s) ==
  LET signed == Head(s) \in {"+", "-"}
      sg == IF Head(s) = "-" THEN -1 ELSE 1
      body == IF signed THEN Tail(s) ELSE s
      dot == IndexOf(body, <<".">>)
      ip == IF dot = 0 THEN body ELSE SubSeq(body, 1, dot - 1)
      fp == IF dot = 0 THEN <<>> ELSE SubSeq(body, dot + 1, Len(body))
  IN IF body = Infinity THEN Inf(sg)
     ELSE IF IsDigits(ip) /\ IsDigits(fp) /\ Len(ip) + Len(fp) >= 1
          THEN Rat(sg * DigitsVal(ip \o fp), Pow10(Len(fp)))
          ELSE NaN

\* Number(text)
StringToNumber(t) ==
  LET s == Trim(t) IN IF s = <<>> THEN Zero ELSE ParseDecimal(s)

----------------------------------------------------------------------------
(* The calculator *)

\* a field that was never assigned
Undefined == [k |-> "undef", n |-> 0, d |-> 1]

\* a parameter default: it replaces undefined only
Default(x, dflt) == IF x = Undefined THEN dflt ELSE x

\* ToNumber of an operand of an arithmetic operator
ToNum(x) == IF x = Undefined THEN NaN ELSE x

Hundred == Rat(100, 1)

FractionDigits == 4

\* faulty variant of calcCPL: the lead price is derived from the rounded
\* breakeven
calcCPLRounded(p) ==
  LET payout == ToNum(p.payout)
      approve == ToNum(p.approve)
      trash == Default(p.trash, Zero)
      roi == Default(p.roi, Zero)
      A == Div(approve, Hundred)
      T == Div(trash, Hundred)
      R == Div(roi, Hundred)
      breakeven == ToFixed(Div(Mul(payout, A), Add(One, T)), FractionDigits)
      leadPrice == Div(breakeven, Add(One, R))
  IN [breakeven |-> breakeven,
      leadPrice |-> ToFixed(leadPrice, FractionDigits)]

calcCPL(p) ==
  LET payout == ToNum(p.payout)
      approve == ToNum(p.approve)
      trash == Default(p.trash, Zero)
      roi == Default(p.roi, Zero)
      A == Div(approve, Hundred)
      T == Div(trash, Hundred)
      R == Div(roi, Hundred)
      breakeven == Div(Mul(payout, A), Add(One, T))
      leadPrice == Div(breakeven, Add(One, R))
  IN [breakeven |-> ToFixed(breakeven, FractionDigits),
      leadPrice |-> ToFixed(leadPrice, FractionDigits)]

----------------------------------------------------------------------------
(* Messages sent by the bot.  kind names the text template; a result       *)
(* message also carries the three numbers printed in it.                   *)

Msg(chatId, kind) ==
  [to |-> chatId, kind |-> kind,
   breakeven |-> Undefined, leadPrice |-> Undefined, roi |-> Undefined]

ResultMsg(chatId, kind, res, roi) ==
  [to |-> chatId, kind |-> kind,
   breakeven |-> res.breakeven, leadPrice |-> res.leadPrice, roi |-> roi]

----------------------------------------------------------------------------
(* The main-menu button labels, one string per character *)

MenuCalculator ==
  <<"U+041A", "U+0430", "U+043B", "U+044C", "U+043A", "U+0443", "U+043B",
    "U+044F", "U+0442", "U+043E", "U+0440", " ", "U+0430", "U+0440",
    "U+0431", "U+0438", "U+0442", "U+0440", "U+0430", "U+0436", "U+043D",
    "U+0438", "U+043A", "U+0430">>

MenuChannel ==
  <<"U+041D", "U+0430", "U+0448", " ", "U+0442", "U+0433", "-", "U+043A",
    "U+0430", "U+043D", "U+0430", "U+043B">>

MenuManager ==
  <<"U+0421", "U+0432", "U+044F", "U+0437", "U+0430", "U+0442", "U+044C",
    "U+0441", "U+044F", " ", "U+0441", " ", "U+043C", "U+0435", "U+043D",
    "U+0435", "U+0434", "U+0436", "U+0435", "U+0440", "U+043E", "U+043C",
    "/", "U+0437", "U+0430", "U+0434", "U+0430", "U+0442", "U+044C", " ",
    "U+0432", "U+043E", "U+043F", "U+0440", "U+043E", "U+0441">>

MenuAds ==
  <<"U+0420", "U+0435", "U+043A", "U+043B", "U+0430", "U+043C", "U+0430",
    " ", "U+0432", " ", "T", "e", "l", "e", "g", "r", "a", "m", " ", "A",
    "d", "s">>

----------------------------------------------------------------------------
(* The session map *)

\* Map.prototype.set
Put(m, key, v) == [x \in DOMAIN m \cup {key} |-> IF x = key THEN v ELSE m[x]]

\* Map.prototype.delete
Remove(m, key) == [x \in DOMAIN m \ {key} |-> m[x]]

\* new Map()
EmptyMap == [x \in {} |-> Undefined]

\* data: {}
EmptyData ==
  [payout |-> Undefined, approve |-> Undefined,
   trash |-> Undefined, roi |-> Undefined]

\* faulty variant of ChatId: every message is filed under one chat
ChatIdShared(msg) == 101

\* msg.chat.id
ChatId(msg) == msg.chat

----------------------------------------------------------------------------
(* /lead *)

\* faulty variant of StartSession: a session in progress is kept
StartSessionKeep(ss, chatId) ==
  IF chatId \in DOMAIN ss THEN ss
  ELSE Put(ss, chatId, [step |-> "payout", data |-> EmptyData])

\* faulty variant of StartSession: the fields of a session in progress stay
StartSessionStale(ss, chatId) ==
  Put(ss, chatId,
      [step |-> "payout",
       data |-> IF chatId \in DOMAIN ss THEN ss[chatId].data ELSE EmptyData])

\* sessions.set(msg.chat.id, { step: 'payout', data: {} })
StartSession(ss, chatId) ==
  Put(ss, chatId, [step |-> "payout", data |-> EmptyData])

LeadReply(ss, msg) ==
  [sessions |-> StartSession(ss, ChatId(msg)),
   sent |-> <<Msg(ChatId(msg), "askPayout")>>]

----------------------------------------------------------------------------
(* /calc *)

MinArgs == 3

\* match[1].trim().split(/\s+/).map(Number)
CalcArgs(group) ==
  LET tokens == SplitWs(Trim(group))
  IN [i \in 1..Len(tokens) |-> StringToNumber(tokens[i])]

\* faulty variant of CalcInput: the fourth token is not read
CalcInputNoRoi(args) ==
  [payout |-> args[1], approve |-> args[2], trash |-> args[3], roi |-> Zero]

\* faulty variant of CalcInput: a missing fourth token defaults to 1
CalcInputRoiOne(args) ==
  [payout |-> args[1], approve |-> args[2], trash |-> args[3],
   roi |-> IF Len(args) >= 4 THEN args[4] ELSE One]

\* const [payout, approve, trash, roi = 0] = args
CalcInput(args) ==
  [payout |-> args[1], approve |-> args[2], trash |-> args[3],
   roi |-> IF Len(args) >= 4 THEN args[4] ELSE Zero]

\* [payout, approve, trash, roi].some((n) => Number.isNaN(n))
SomeNaN(inp) ==
  \/ IsNaN(inp.payout) \/ IsNaN(inp.approve)
  \/ IsNaN(inp.trash) \/ IsNaN(inp.roi)

\* the message the /calc callback sends for the captured group
CalcReply(chatId, group) ==
  LET args == CalcArgs(group)
  IN IF Len(args) < MinArgs THEN Msg(chatId, "need3")
     ELSE LET inp == CalcInput(args)
          IN IF SomeNaN(inp) THEN Msg(chatId, "allNumbers")
             ELSE ResultMsg(chatId, "calcResult", calcCPL(inp), inp.roi)

----------------------------------------------------------------------------
(* The wizard section of the 'message' listener *)

\* faulty variant of ParseReply: the comma is not replaced
ParseReplyNoComma(text) == StringToNumber(text)

\* Number(msg.text.replace(',', '.'))
ParseReply(text) == StringToNumber(Replace(text, <<",">>, <<".">>))

\* session.data.<step> = val
StoreField(data, step, val) ==
  CASE step = "payout" -> [data EXCEPT !.payout = val]
    [] step = "approve" -> [data EXCEPT !.approve = val]
    [] step = "trash" -> [data EXCEPT !.trash = val]
    [] step = "roi" -> [data EXCEPT !.roi = val]

\* faulty variant of NextStep: the approve step is skipped
NextStepSkip(step) ==
  CASE step = "payout" -> "trash"
    [] step = "approve" -> "trash"
    [] step = "trash" -> "roi"

\* faulty variant of NextStep: the step after trash is misspelt
NextStepTypo(step) ==
  CASE step = "payout" -> "approve"
    [] step = "approve" -> "trash"
    [] step = "trash" -> "ROI"

\* faulty variant of NextStep: the dialog never leaves the trash step
NextStepStuck(step) ==
  CASE step = "payout" -> "approve"
    [] step = "approve" -> "trash"
    [] step = "trash" -> "trash"

\* session.step = ...
NextStep(step) ==
  CASE step = "payout" -> "approve"
    [] step = "approve" -> "trash"
    [] step = "trash" -> "roi"

\* faulty variant of PromptAfter: the prompt for approve is sent twice
PromptAfterRepeated(step) ==
  CASE step = "payout" -> "askApprove"
    [] step = "approve" -> "askApprove"
    [] step = "trash" -> "askRoi"

\* the prompt sent on leaving a step
PromptAfter(step) ==
  CASE step = "payout" -> "askApprove"
    [] step = "approve" -> "askTrash"
    [] step = "trash" -> "askRoi"

\* faulty variant of EndSession: the finished session stays in the map
EndSessionKeep(ss, chatId) == ss

\* faulty variant of EndSession: the wizard starts over instead of ending
EndSessionRestart(ss, chatId) == StartSession(ss, chatId)

\* sessions.delete(chatId)
EndSession(ss, chatId) == Remove(ss, chatId)

\* faulty variant of IsRejected: the parse guard is missing
IsRejectedNever(val) == FALSE

\* if (Number.isNaN(val))
IsRejected(val) == IsNaN(val)

WizardReply(ss, chatId, text) ==
  IF chatId \notin DOMAIN ss THEN [sessions |-> ss, sent |-> <<>>]
  ELSE
    LET session == ss[chatId]
        val == ParseReply(text)
    IN IF IsRejected(val)
       THEN [sessions |-> ss, sent |-> <<Msg(chatId, "notNumber")>>]
       ELSE
         CASE session.step \in {"payout", "approve", "trash"} ->
                [sessions |->
                   Put(ss, chatId,
                       [step |-> NextStep(session.step),
                        data |-> StoreField(session.data, session.step, val)]),
                 sent |-> <<Msg(chatId, PromptAfter(session.step))>>]
           [] session.step = "roi" ->
                [sessions |-> EndSession(ss, chatId),
                 sent |->
                   <<ResultMsg(chatId, "wizardResult",
                               calcCPL(StoreField(session.data, "roi", val)),
                               val)>>]
           [] OTHER ->
                [sessions |-> EndSession(ss, chatId),
                 sent |-> <<Msg(chatId, "stateError")>>]

----------------------------------------------------------------------------
(* The 'message' listener *)

\* faulty variant of IsIgnored: commands reach the wizard
IsIgnoredEmptyOnly(text) == text = <<>>

\* if (!msg.text || msg.text.startsWith('/')) return
IsIgnored(text) == text = <<>> \/ StartsWith(text, <<"/">>)

\* the main-menu switch: the answer to a button label, "none" otherwise
MenuKind(text) ==
  CASE text = MenuCalculator -> "calcHelp"
    [] text = MenuChannel -> "channel"
    [] text \in {MenuManager, MenuAds} -> "manager"
    [] OTHER -> "none"

MessageReply(ss, msg) ==
  IF IsIgnored(msg.text) THEN [sessions |-> ss, sent |-> <<>>]
  ELSE IF MenuKind(msg.text) # "none"
       THEN [sessions |-> ss, sent |-> <<Msg(ChatId(msg), MenuKind(msg.text))>>]
       ELSE WizardReply(ss, ChatId(msg), msg.text)

----------------------------------------------------------------------------
(* Dispatch: which onText callbacks a text reaches *)

CmdStart == <<"/", "s", "t", "a", "r", "t">>

CmdCalc == <<"/", "c", "a", "l", "c">>

CmdLead == <<"/", "l", "e", "a", "d">>

\* /\/start/ and /\/lead/: the pattern occurs somewhere in the text
Matches(text, pat) == IndexOf(text, pat) # 0

\* /\/calc (.+)/: the first place where "/calc " is followed by a character
\* of the same line; 0 when there is none
CalcMatchAt(text) ==
  LET pat == CmdCalc \o <<" ">>
      I == {i \in 1..(Len(text) - Len(pat)) :
              /\ SubSeq(text, i, i + Len(pat) - 1) = pat
              /\ text[i + Len(pat)] \notin LineTerminators}
  IN IF I = {} THEN 0 ELSE CHOOSE i \in I : \A j \in I : i <= j

\* match[1]: the rest of the line after "/calc "
CalcGroup(text) ==
  LET rest == SubSeq(text, CalcMatchAt(text) + Len(CmdCalc) + 1, Len(text))
      E == {i \in 1..Len(rest) : rest[i] \in LineTerminators}
  IN IF E = {} THEN rest
     ELSE SubSeq(rest, 1, (CHOOSE i \in E : \A j \in E : i <= j) - 1)

\* the listeners a message reaches, in the order they run
Callbacks(text) ==
  <<"message">>
    \o (IF Matches(text, CmdStart) THEN <<"start">> ELSE <<>>)
    \o (IF CalcMatchAt(text) # 0 THEN <<"calc">> ELSE <<>>)
    \o (IF Matches(text, CmdLead) THEN <<"lead">> ELSE <<>>)

----------------------------------------------------------------------------
(* State                                                                   *)
(*   sessions  the session map: chat id -> [step, data]                    *)
(*   cur       the message being dispatched, or the last one dispatched    *)
(*   todo      the listeners that have yet to run for cur                  *)
(*   sent      the messages sent since cur arrived                         *)
(*   last      the step taken last                                         *)
(*   prev      the session map before the step taken last                  *)
(*   hist      per chat: whether /lead ever ran, the replies the wizard    *)
(*             took since the last /lead, the results it sent since then,  *)
(*             whether it rejected a reply since then                      *)

Chats == {101, 102}

NoHist ==
  [started |-> FALSE, texts |-> <<>>, results |-> 0, rejected |-> FALSE]

NewHist ==
  [started |-> TRUE, texts |-> <<>>, results |-> 0, rejected |-> FALSE]

Init ==
  /\ sessions = EmptyMap
  /\ prev = EmptyMap
  /\ cur = [chat |-> 101, text |-> <<>>]
  /\ todo = <<>>
  /\ sent = <<>>
  /\ last = "init"
  /\ hist = [c \in Chats |-> NoHist]

\* a message arrives while no listener is running
Deliver(c, text) ==
  /\ todo = <<>>
  /\ cur' = [chat |-> c, text |-> text]
  /\ todo' = Callbacks(text)
  /\ sent' = <<>>
  /\ last' = "deliver"
  /\ prev' = sessions
  /\ UNCHANGED <<sessions, hist>>

AcceptKinds == {"askApprove", "askTrash", "askRoi", "wizardResult"}

\* the replies among out that turn the text down
Rejections(out) == {i \in 1..Len(out) : out[i].kind = "notNumber"}

\* the replies among out that show the wizard took the text
Taken(out) == {i \in 1..Len(out) : out[i].kind \in AcceptKinds}

Results(out) == {i \in 1..Len(out) : out[i].kind = "wizardResult"}

\* bot.on('message', ...)
OnMessage ==
  /\ todo # <<>> /\ Head(todo) = "message"
  /\ LET r == MessageReply(sessions, cur)
         c == cur.chat
     IN /\ sessions' = r.sessions
        /\ sent' = sent \o r.sent
        /\ hist' = [hist EXCEPT
                      ![c].texts = IF Taken(r.sent) # {}
                                   THEN Append(@, cur.text) ELSE @,
                      ![c].results = @ + Cardinality(Results(r.sent)),
                      ![c].rejected = @ \/ Rejections(r.sent) # {}]
  /\ todo' = Tail(todo)
  /\ last' = "message"
  /\ prev' = sessions
  /\ UNCHANGED cur

\* bot.onText(/\/start/, ...)
OnStart ==
  /\ todo # <<>> /\ Head(todo) = "start"
  /\ sent' = Append(sent, Msg(ChatId(cur), "greeting"))
  /\ todo' = Tail(todo)
  /\ last' = "start"
  /\ prev' = sessions
  /\ UNCHANGED <<sessions, cur, hist>>

\* bot.onText(/\/calc (.+)/, ...)
OnCalc ==
  /\ todo # <<>> /\ Head(todo) = "calc"
  /\ sent' = Append(sent, CalcReply(ChatId(cur), CalcGroup(cur.text)))
  /\ todo' = Tail(todo)
  /\ last' = "calc"
  /\ prev' = sessions
  /\ UNCHANGED <<sessions, cur, hist>>

\* bot.onText(/\/lead/, ...)
OnLead ==
  /\ todo # <<>> /\ Head(todo) = "lead"
  /\ LET r == LeadReply(sessions, cur)
     IN /\ sessions' = r.sessions
        /\ sent' = sent \o r.sent
  /\ hist' = [hist EXCEPT ![cur.chat] = NewHist]
  /\ todo' = Tail(todo)
  /\ last' = "lead"
  /\ prev' = sessions
  /\ UNCHANGED cur

\* bot.on('polling_error', ...): the error is logged, nothing else
\* faulty variant of OnPollingError: a polling error drops every session
OnPollingErrorClears ==
  /\ todo = <<>>
  /\ last # "polling_error"
  /\ last' = "polling_error"
  /\ prev' = sessions
  /\ sessions' = EmptyMap
  /\ UNCHANGED <<cur, todo, sent, hist>>

OnPollingError ==
  /\ todo = <<>>
  /\ last # "polling_error"
  /\ last' = "polling_error"
  /\ prev' = sessions
  /\ UNCHANGED <<sessions, cur, todo, sent, hist>>

----------------------------------------------------------------------------
(* Inputs *)

T20 == <<"2", "0">>

T2c5 == <<"2", ",", "5">>

Tabc == <<"a", "b", "c">>

TMinus100 == <<"-", "1", "0", "0">>

\* "/calc" followed by the tokens, each after one space
RECURSIVE CalcCommand(_)
CalcCommand(tokens) ==
  IF tokens = <<>> THEN CmdCalc
  ELSE CalcCommand(SubSeq(tokens, 1, Len(tokens) - 1))
         \o <<" ">> \o tokens[Len(tokens)]

\* the texts of the chats of Spec
MainTexts ==
  {T20, T2c5, Tabc, <<>>, MenuCalculator, MenuAds,
   CmdStart, CmdLead, CmdCalc, CalcCommand(<<T20, T20>>),
   CalcCommand(<<T20, T20, T20, T20>>), Tabc \o CmdLead,
   CalcCommand(<<T20, T20, T20, CmdLead>>)}

Next ==
  \/ \E c \in Chats, text \in MainTexts : Deliver(c, text)
  \/ OnMessage
  \/ OnStart
  \/ OnCalc
  \/ OnLead
  \/ OnPollingError

Spec == Init /\ [][Next]_vars

----------------------------------------------------------------------------
(* One reply to a dialog in progress: a chat that has answered zero to     *)
(* three prompts (or never started) receives one text                      *)

Alphabet == {"2", ".", ",", "-", " ", "z", "/"}

BoundedTexts(n) == UNION {[1..k -> Alphabet] : k \in 0..n}

ReplyTexts ==
  BoundedTexts(MaxTextLen)
    \cup {Infinity, <<"-">> \o Infinity, TMinus100, T20, Tabc, MenuCalculator}

Seeds == {T20, T2c5, TMinus100, Infinity}

\* the session map after the wizard has taken the texts, in order
RECURSIVE AfterReplies(_, _, _)
AfterReplies(ss, chatId, texts) ==
  IF texts = <<>> THEN ss
  ELSE WizardReply(AfterReplies(ss, chatId, SubSeq(texts, 1, Len(texts) - 1)),
                   chatId, texts[Len(texts)]).sessions

\* the chat that receives the reply
ReplyChat == CHOOSE c \in Chats : \A x \in Chats : c <= x

InitReply ==
  /\ LET c == ReplyChat IN
       /\ cur = [chat |-> c, text |-> <<>>]
       /\ \/ sessions = EmptyMap /\ hist = [x \in Chats |-> NoHist]
          \/ \E k \in 0..3 : \E ts \in [1..k -> Seeds] :
               /\ sessions = AfterReplies(StartSession(EmptyMap, c), c, ts)
               /\ hist = [x \in Chats |->
                            IF x = c THEN [NewHist EXCEPT !.texts = ts]
                            ELSE NoHist]
  /\ prev = sessions
  /\ todo = <<>>
  /\ sent = <<>>
  /\ last = "init"

DeliverReply == \E text \in ReplyTexts : last = "init" /\ Deliver(cur.chat, text)

NextReply == DeliverReply \/ OnMessage

SpecReply == InitReply /\ [][NextReply]_vars

----------------------------------------------------------------------------
(* One one-shot command: "/calc" followed by up to MaxTokens tokens        *)

Tokens == {T20, <<"0">>, Tabc, Infinity, TMinus100}

CalcCommands ==
  {CalcCommand(ts) : ts \in UNION {[1..k -> Tokens] : k \in 0..MaxTokens}}

DeliverCalc ==
  \E c \in Chats, text \in CalcCommands : last = "init" /\ Deliver(c, text)

NextCalc == DeliverCalc \/ OnMessage \/ OnCalc

SpecCalc == Init /\ [][NextCalc]_vars

----------------------------------------------------------------------------
(* Vocabulary of the properties *)

MenuLabels == {MenuCalculator, MenuChannel, MenuManager, MenuAds}

\* a text the router hands to the wizard as a reply: it is not empty, not a
\* command and not a menu button
IsReplyText(t) == t # <<>> /\ Head(t) # "/" /\ t \notin MenuLabels

\* the 'message' listener has just handled a reply of a chat that had a session
SubmittedToSession ==
  last = "message" /\ IsReplyText(cur.text) /\ cur.chat \in DOMAIN prev

Infinities == {Infinity, <<"+">> \o Infinity, <<"-">> \o Infinity}

\* the letters that occur in some numeric literal (radix prefixes, hex
\* digits, the exponent mark, Infinity)
LiteralLetters ==
  {"a", "b", "c", "d", "e", "f", "A", "B", "C", "D", "E", "F",
   "x", "X", "o", "O", "I", "n", "i", "t", "y"}

NumericChars ==
  Digits \cup {".", ",", "+", "-"} \cup WhiteSpace \cup LiteralLetters

\* the text writes no number: it is not blank, not an Infinity, and it
\* holds no digit at all or a character no numeric literal is written with
NonNumericText(t) ==
  /\ Trim(t) # <<>>
  /\ Trim(t) \notin Infinities
  /\ \/ \A i \in 1..Len(t) : t[i] \notin Digits
     \/ \E i \in 1..Len(t) : t[i] \notin NumericChars

BlankText(t) == Trim(t) = <<>>

NotFiniteText(t) == Trim(t) \in Infinities

\* the wizard sent exactly the validation failure and changed no session
RejectedUnchanged ==
  sessions = prev /\ sent = <<Msg(cur.chat, "notNumber")>>

StepIndex(step) ==
  CASE step = "payout" -> 1 [] step = "approve" -> 2
    [] step = "trash" -> 3 [] step = "roi" -> 4 [] OTHER -> 0

\* the last step was a reply the wizard took
TookReply ==
  last = "message" /\ sent # <<>> /\ sent[Len(sent)].kind \in AcceptKinds

----------------------------------------------------------------------------
(* C1: a non-numeric reply to a chat with a session, at any step, is       *)
(* answered by the validation failure and leaves the session present with  *)
(* the same step and the same collected fields.                            *)
C1_NonNumericRetry ==
  (SubmittedToSession /\ NonNumericText(cur.text)) => RejectedUnchanged

C1_Witness ==
  /\ SubmittedToSession /\ cur.text = <<"2", "z">>
  /\ prev[cur.chat].step = "roi"
  /\ sessions[cur.chat].step = "roi"

(* C2: once four replies have been taken since /lead, the result has been  *)
(* sent exactly once and the session is gone; a further reply changes      *)
(* nothing and is answered by nothing; no fifth reply is ever taken.       *)
C2_CompleteOnce ==
  \A ch \in Chats :
    /\ Len(hist[ch].texts) <= 4
    /\ Len(hist[ch].texts) < 4 => hist[ch].results = 0
    /\ Len(hist[ch].texts) = 4 =>
         /\ hist[ch].results = 1
         /\ ch \notin DOMAIN sessions
         /\ (last = "message" /\ cur.chat = ch /\ IsReplyText(cur.text)
               /\ ch \notin DOMAIN prev)
              => (sent = <<>> /\ sessions = prev)

C2_Witness ==
  /\ last = "message" /\ cur.text = T20
  /\ Len(hist[cur.chat].texts) = 4
  /\ cur.chat \notin DOMAIN prev
  /\ sent = <<>>

\* the token that writes the value of a reply: the decimal comma becomes a point
TokenOf(t) == Trim(Replace(t, <<",">>, <<".">>))

IsToken(t) == t # <<>> /\ \A i \in 1..Len(t) : t[i] \notin WhiteSpace

(* C3: the result the wizard sends for four replies shows the breakeven    *)
(* and lead price that /calc sends for the same four values as tokens.     *)
C3_WizardEqualsOneShot ==
  (last = "message" /\ sent # <<>> /\ sent[1].kind = "wizardResult") =>
    LET ts == hist[cur.chat].texts
        toks == [i \in 1..Len(ts) |-> TokenOf(ts[i])]
        m == CalcReply(cur.chat, CalcGroup(CalcCommand(toks)))
    IN /\ Len(ts) = 4
       /\ (\A i \in 1..4 : IsToken(toks[i])) =>
            /\ m.kind = "calcResult"
            /\ m.breakeven = sent[1].breakeven
            /\ m.leadPrice = sent[1].leadPrice

C3_Witness ==
  /\ last = "message" /\ sent # <<>> /\ sent[1].kind = "wizardResult"
  /\ hist[cur.chat].texts = <<T20, T20, T20, <<"2", ",", "2">>>>
  /\ sent[1].roi = Rat(22, 10)

\* what the calculator makes of four replies
ResultOf(ts) ==
  calcCPL([payout |-> ParseReply(ts[1]), approve |-> ParseReply(ts[2]),
           trash |-> ParseReply(ts[3]), roi |-> ParseReply(ts[4])])

(* C4: a step taken for one chat leaves every other chat's session as it   *)
(* was (present or absent, step and fields), every message goes to the     *)
(* chat of the step, and a wizard result is computed from the replies of   *)
(* that chat alone.                                                        *)
C4_Isolation ==
  last # "init" =>
    /\ \A ch \in Chats \ {cur.chat} :
         /\ ch \in DOMAIN sessions <=> ch \in DOMAIN prev
         /\ ch \in DOMAIN sessions => sessions[ch] = prev[ch]
    /\ \A i \in 1..Len(sent) :
         /\ sent[i].to = cur.chat
         /\ sent[i].kind = "wizardResult" =>
              /\ Len(hist[cur.chat].texts) = 4
              /\ sent[i].breakeven = ResultOf(hist[cur.chat].texts).breakeven
              /\ sent[i].leadPrice = ResultOf(hist[cur.chat].texts).leadPrice

C4_Witness ==
  /\ last = "message" /\ sent # <<>> /\ sent[1].kind = "wizardResult"
  /\ hist[cur.chat].texts = <<T20, T20, T20, T20>>
  /\ \E ch \in Chats \ {cur.chat} :
       /\ ch \in DOMAIN sessions
       /\ sessions[ch].step = "roi"
       /\ hist[ch].texts = <<T2c5, T2c5, T2c5>>

(* C5: after /lead the chat has a session at step payout with no field    *)
(* set, whatever it had before.                                            *)
C5_StartResets ==
  last = "lead" =>
    /\ cur.chat \in DOMAIN sessions
    /\ sessions[cur.chat] = [step |-> "payout", data |-> EmptyData]

C5_Witness ==
  /\ last = "lead"
  /\ cur.chat \in DOMAIN prev
  /\ prev[cur.chat].step = "roi"
  /\ prev[cur.chat].data.trash = Rat(20, 1)

(* C6: a chat has a session exactly when /lead has run for it and fewer    *)
(* than four replies have been taken since the last /lead.                 *)
C6_SessionIffInProgress ==
  \A ch \in Chats :
    ch \in DOMAIN sessions <=> (hist[ch].started /\ Len(hist[ch].texts) < 4)

C6_Witness ==
  \E a, b \in Chats :
    /\ hist[a].started /\ Len(hist[a].texts) = 4 /\ a \notin DOMAIN sessions
    /\ Len(hist[b].texts) = 3 /\ b \in DOMAIN sessions

(* C7: a session's step changes only when a reply is taken, and then to    *)
(* the next step in the order payout, approve, trash, roi, with the        *)
(* session ending after roi; only /lead puts a chat at step payout.        *)
C7_ForwardOnly ==
  \A ch \in Chats :
    LET had == ch \in DOMAIN prev
        has == ch \in DOMAIN sessions
    IN /\ (had /\ has /\ sessions[ch].step # prev[ch].step) =>
            \/ /\ TookReply /\ cur.chat = ch
               /\ StepIndex(sessions[ch].step) = StepIndex(prev[ch].step) + 1
            \/ last = "lead" /\ cur.chat = ch /\ sessions[ch].step = "payout"
       /\ (had /\ ~has) =>
            TookReply /\ cur.chat = ch /\ prev[ch].step = "roi"
       /\ (~had /\ has) =>
            last = "lead" /\ cur.chat = ch /\ sessions[ch].step = "payout"
       /\ has => StepIndex(sessions[ch].step) # 0

C7_Witness ==
  /\ TookReply
  /\ cur.chat \in DOMAIN prev /\ prev[cur.chat].step = "trash"
  /\ cur.chat \in DOMAIN sessions /\ sessions[cur.chat].step = "roi"

\* the words after the command word of a one-shot command
TokensOf(text) == Tail(SplitWs(Trim(text)))

\* a one-shot command has been dispatched to the end
OneShotDone ==
  last # "init" /\ todo = <<>> /\ StartsWith(cur.text, CmdCalc)

(* C8: a one-shot command with fewer than 3 tokens (0, 1 or 2) is answered *)
(* by the insufficient-arguments message and by nothing else.              *)
C8_FewTokensRefused ==
  (OneShotDone /\ Len(TokensOf(cur.text)) < MinArgs) =>
    sent = <<Msg(cur.chat, "need3")>>

(* C9: a one-shot command with at least 3 tokens, one of which (at any     *)
(* position) is not a finite number, is answered by the non-numeric        *)
(* argument message and by no result.                                      *)
C9_NonNumericRefused ==
  (/\ OneShotDone
   /\ Len(TokensOf(cur.text)) >= MinArgs
   /\ \E i \in 1..Len(TokensOf(cur.text)) :
        ~IsFinite(StringToNumber(TokensOf(cur.text)[i])))
    => sent = <<Msg(cur.chat, "allNumbers")>>

(* C10: a reply that is non-numeric, blank or not a finite number is       *)
(* answered by the validation failure; no field is stored and the step     *)
(* stays.                                                                  *)
C10_ParseFailureRejected ==
  (/\ SubmittedToSession
   /\ \/ NonNumericText(cur.text)
      \/ BlankText(cur.text)
      \/ NotFiniteText(cur.text))
    => RejectedUnchanged


\* the tokens of a dispatched one-shot command, as numbers
TokenValues == CalcArgs(SubSeq(cur.text, Len(CmdCalc) + 2, Len(cur.text)))

MinusHundred == Rat(-100, 1)

(* C11: when the tokens are finite numbers and trash or roi is -100, so    *)
(* that a denominator of the calculator is zero, the one-shot command      *)
(* reports an error and shows no result.                                   *)
C11_DegenerateRefused ==
  (/\ OneShotDone
   /\ Len(TokenValues) \in {3, 4}
   /\ \A i \in 1..Len(TokenValues) : IsFinite(TokenValues[i])
   /\ \E i \in 3..Len(TokenValues) : TokenValues[i] = MinusHundred)
    => \A i \in 1..Len(sent) : sent[i].kind # "calcResult"


----------------------------------------------------------------------------
(* One one-shot command with three or four tokens, each a percentage or    *)
(* an amount in the range the calculator is meant for                      *)

T0 == <<"0">>

T35 == <<"3", "5">>

T30 == <<"3", "0">>

T50 == <<"5", "0">>

T2p5 == <<"2", ".", "5">>

T100 == <<"1", "0", "0">>

QuoteTokens == {T0, T20, T35, T30, T50, T2p5, T100}

QuoteCommands ==
  {CalcCommand(ts) : ts \in [1..3 -> QuoteTokens] \cup [1..4 -> QuoteTokens]}

DeliverQuote ==
  \E c \in Chats, text \in QuoteCommands : last = "init" /\ Deliver(c, text)

NextQuote == DeliverQuote \/ OnMessage \/ OnCalc

SpecQuote == Init /\ [][NextQuote]_vars

\* the whole number nearest to N * 10^4 / D, a tie going up (N >= 0, D > 0)
Nearest4(N, D) ==
  LET r0 == N % D
      r1 == (r0 * 10) % D
      r2 == (r1 * 10) % D
      r3 == (r2 * 10) % D
      r4 == (r3 * 10) % D
  IN (N \div D) * 10000 + ((r0 * 10) \div D) * 1000 + ((r1 * 10) \div D) * 100
       + ((r2 * 10) \div D) * 10 + ((r3 * 10) \div D)
       + (IF 2 * r4 >= D THEN 1 ELSE 0)

(* C12: for payout >= 0, approve in 0..100, trash >= 0, roi >= 0 the       *)
(* result shows breakeven = payout*approve/(100+trash) and leadPrice =     *)
(* breakeven*100/(100+roi), each rounded to 4 decimals, the lead price     *)
(* taken from the unrounded breakeven.                                     *)
C12_Formula ==
  OneShotDone =>
    LET v == TokenValues
        p == v[1]
        a == v[2]
        t == v[3]
        r == IF Len(v) >= 4 THEN v[4] ELSE Zero
        Nb == p.n * a.n * t.d
        Db == p.d * a.d * (100 * t.d + t.n)
        Nl == Nb * 100 * r.d
        Dl == Db * (100 * r.d + r.n)
    IN /\ Len(sent) = 1
       /\ sent[1].kind = "calcResult"
       /\ sent[1].breakeven = Rat(Nearest4(Nb, Db), 10000)
       /\ sent[1].leadPrice = Rat(Nearest4(Nl, Dl), 10000)

C12_Witness ==
  /\ OneShotDone
  /\ cur.text = CalcCommand(<<T20, T35, T30, T50>>)
  /\ sent[1].breakeven = Rat(53846, 10000)
  /\ sent[1].leadPrice = Rat(35897, 10000)

(* C13: with trash = 0 and roi = 0, given as tokens or left to the default *)
(* (a command of three tokens, a calculator input whose trash and roi are  *)
(* unset), the lead price shown equals the breakeven shown.                *)
C13_ZeroRatesEqual ==
  (/\ OneShotDone
   /\ TokenValues[3] = Zero
   /\ Len(TokenValues) = 4 => TokenValues[4] = Zero)
    => /\ Len(sent) = 1
       /\ sent[1].kind = "calcResult"
       /\ sent[1].leadPrice = sent[1].breakeven
       /\ LET unset == calcCPL([payout |-> TokenValues[1],
                                approve |-> TokenValues[2],
                                trash |-> Undefined, roi |-> Undefined])
          IN /\ unset.leadPrice = unset.breakeven
             /\ unset.breakeven = sent[1].breakeven

C13_Witness ==
  /\ OneShotDone
  /\ cur.text = CalcCommand(<<T20, T35, T0>>)
  /\ sent[1].breakeven = Rat(7, 1)
  /\ sent[1].leadPrice = Rat(7, 1)


(* C14: a session never expires: whatever event happens, a chat's session  *)
(* stays with the same step and the same fields unless the event is that   *)
(* chat's own taken reply (which removes it only at step roi), that chat's *)
(* own /lead, or the detection of an unrecognized step.                    *)
C14_NoExpiry ==
  \A ch \in DOMAIN prev :
    \/ ch \in DOMAIN sessions /\ sessions[ch] = prev[ch]
    \/ /\ cur.chat = ch /\ TookReply
       /\ ch \notin DOMAIN sessions <=> prev[ch].step = "roi"
    \/ /\ cur.chat = ch /\ last = "lead"
       /\ sessions[ch] = [step |-> "payout", data |-> EmptyData]
    \/ /\ cur.chat = ch /\ last = "message"
       /\ StepIndex(prev[ch].step) = 0
       /\ ch \notin DOMAIN sessions

\* a session left at step roi survives the other chat's whole dialog and a
\* polling error
C14_Witness ==
  \E a, b \in Chats :
    /\ last = "polling_error"
    /\ a \in DOMAIN sessions /\ sessions[a].step = "roi"
    /\ sessions[a] = prev[a]
    /\ cur.chat = b /\ b # a
    /\ Len(hist[b].texts) = 4 /\ b \notin DOMAIN sessions


\* the session map with a session of an unrecognized step put in for ch
Injected(ch) ==
  Put(sessions, ch,
      [step |-> "unknown",
       data |-> IF ch \in DOMAIN sessions THEN sessions[ch].data
                ELSE EmptyData])

(* C15: every session's step is one of payout, approve, trash, roi, and    *)
(* the invalid-state notice is never sent; were a session with another     *)
(* step put into the map, the next numeric reply of that chat would delete *)
(* it and send the invalid-state notice, the other sessions untouched.     *)
C15_StepsRecognized ==
  /\ \A ch \in DOMAIN sessions : StepIndex(sessions[ch].step) \in 1..4
  /\ \A i \in 1..Len(sent) : sent[i].kind # "stateError"
  /\ \A ch \in Chats, text \in {T20, T2c5} :
       MessageReply(Injected(ch), [chat |-> ch, text |-> text])
         = [sessions |-> Remove(sessions, ch),
            sent |-> <<Msg(ch, "stateError")>>]

\* both chats in a dialog, each at a recognized step
C15_Witness ==
  \E a, b \in Chats :
    /\ TookReply /\ cur.chat = a
    /\ a \in DOMAIN sessions /\ sessions[a].step = "approve"
    /\ sessions[a].data.payout = Rat(20, 1)
    /\ b \in DOMAIN sessions /\ sessions[b].step = "roi"


\* digits with a single "," as the decimal separator
CommaDecimal(t) ==
  /\ \A i \in 1..Len(t) : t[i] \in Digits \cup {","}
  /\ Cardinality({i \in 1..Len(t) : t[i] = ","}) = 1
  /\ \E i \in 1..Len(t) : t[i] \in Digits

\* the same text written with a decimal point
Dotted(t) == [i \in 1..Len(t) |-> IF t[i] = "," THEN "." ELSE t[i]]

(* C16: a reply of digits with one decimal comma is taken, and it stores   *)
(* the same value, makes the same transition and gets the same answer as   *)
(* the reply written with a decimal point.                                 *)
C16_CommaAsPoint ==
  (SubmittedToSession /\ CommaDecimal(cur.text)) =>
    /\ TookReply
    /\ MessageReply(prev, [chat |-> cur.chat, text |-> Dotted(cur.text)])
         = [sessions |-> sessions, sent |-> sent]

C16_Witness ==
  /\ SubmittedToSession
  /\ cur.text = <<"2", ",", "2">>
  /\ prev[cur.chat].step = "approve"
  /\ sessions[cur.chat].step = "trash"
  /\ sessions[cur.chat].data.approve = Rat(22, 10)


(* C17: only taken replies count: a session at the k-th step has taken     *)
(* exactly k-1 replies since its /lead, none of them non-numeric, a        *)
(* rejected reply changes nothing, and the session ends with the result    *)
(* exactly when the fourth reply is taken, however many rejected replies   *)
(* came in between.                                                        *)
C17_RejectedDoNotCount ==
  \A ch \in Chats :
    /\ \A i \in 1..Len(hist[ch].texts) : ~NonNumericText(hist[ch].texts[i])
    /\ ch \in DOMAIN sessions =>
         /\ Len(hist[ch].texts) = StepIndex(sessions[ch].step) - 1
         /\ hist[ch].results = 0
    /\ (hist[ch].started /\ ch \notin DOMAIN sessions) =>
         /\ Len(hist[ch].texts) = 4
         /\ hist[ch].results = 1
    /\ (last = "message" /\ cur.chat = ch /\ Rejections(sent) # {}) =>
         sessions = prev
    /\ (last = "message" /\ cur.chat = ch /\ Results(sent) # {}) =>
         /\ Len(hist[ch].texts) = 4
         /\ prev[ch].step = "roi"
         /\ ch \notin DOMAIN sessions

\* a dialog completed by its fourth taken reply after a rejected one
C17_Witness ==
  /\ TookReply /\ Results(sent) # {}
  /\ hist[cur.chat].rejected
  /\ hist[cur.chat].texts = <<T20, T2c5, T20, T2c5>>
  /\ cur.chat \notin DOMAIN sessions


Fields == {"payout", "approve", "trash", "roi"}

\* the fields of data are those collected before the k-th step, each the
\* number written by the reply taken at its own step
CollectedBefore(data, k, texts) ==
  \A f \in Fields :
    IF StepIndex(f) < k
    THEN /\ data[f] # Undefined
         /\ data[f] = ParseReply(texts[StepIndex(f)])
    ELSE data[f] = Undefined

(* C18: a session at step payout has no field set, at approve exactly      *)
(* payout, at trash payout and approve, at roi payout, approve and trash,  *)
(* each the value of the reply taken at its step since the last /lead; the *)
(* wizard's result is computed from four such values and no default.       *)
C18_StepMatchesFields ==
  \A ch \in Chats :
    /\ ch \in DOMAIN sessions =>
         CollectedBefore(sessions[ch].data, StepIndex(sessions[ch].step),
                         hist[ch].texts)
    /\ (last = "message" /\ cur.chat = ch /\ Results(sent) # {}) =>
         /\ CollectedBefore(prev[ch].data, 4, hist[ch].texts)
         /\ ParseReply(hist[ch].texts[4]) # Undefined
         /\ ~IsNaN(ParseReply(hist[ch].texts[4]))
         /\ \A i \in Results(sent) :
              /\ sent[i].breakeven = ResultOf(hist[ch].texts).breakeven
              /\ sent[i].leadPrice = ResultOf(hist[ch].texts).leadPrice
              /\ sent[i].roi = ParseReply(hist[ch].texts[4])

\* a session restarted by /lead while at step roi, with fresh fields
C18_Witness ==
  \E a, b \in Chats :
    /\ a \in DOMAIN sessions /\ sessions[a].step = "roi"
    /\ sessions[a].data = [payout |-> Rat(20, 1), approve |-> Rat(5, 2),
                           trash |-> Rat(20, 1), roi |-> Undefined]
    /\ last = "lead" /\ cur.chat = b
    /\ b \in DOMAIN prev /\ prev[b].step = "roi"
    /\ sessions[b].data = EmptyData


\* the text holds the word that starts the dialog
HoldsLead(t) ==
  \E i \in 1..(Len(t) - 4) : SubSeq(t, i, i + 4) = <<"/", "l", "e", "a", "d">>

(* C19: the /calc callback, whatever it answers (result, too few values,   *)
(* not all numbers), the /start callback and the 'message' listener on a   *)
(* text that begins with "/" leave the session map as it was, and only a   *)
(* text holding the dialog-start word makes the /lead callback run; a menu *)
(* button leaves the map as it was and is not answered by the validation   *)
(* failure, session or not.                                                *)
C19_CommandsLeaveSessions ==
  /\ last = "calc" =>
       /\ sessions = prev
       /\ sent # <<>>
       /\ sent[Len(sent)].kind \in {"calcResult", "need3", "allNumbers"}
  /\ last = "start" => sessions = prev
  /\ (last = "message" /\ StartsWith(cur.text, <<"/">>)) =>
       sessions = prev /\ sent = <<>>
  /\ last = "lead" => HoldsLead(cur.text)
  /\ (last \in {"message", "calc", "start", "lead"}
        /\ StartsWith(cur.text, <<"/">>) /\ ~HoldsLead(cur.text)) =>
       sessions = prev
  /\ (last = "message" /\ cur.text \in MenuLabels) =>
       /\ sessions = prev
       /\ Rejections(sent) = {}

\* a one-shot result for a chat in the middle of a dialog
C19_Witness ==
  /\ last = "calc"
  /\ cur.text = CalcCommand(<<T20, T20, T20, T20>>)
  /\ sent[Len(sent)].kind = "calcResult"
  /\ cur.chat \in DOMAIN sessions /\ sessions[cur.chat].step = "trash"
  /\ sessions[cur.chat] = prev[cur.chat]


\* the prompt that names the field of a step
PromptOf(step) ==
  CASE step = "approve" -> "askApprove"
    [] step = "trash" -> "askTrash"
    [] step = "roi" -> "askRoi"
    [] OTHER -> "none"

AnswerKinds ==
  {"askApprove", "askTrash", "askRoi", "notNumber", "wizardResult",
   "stateError"}

(* C20: a reply of a chat with a session is answered by exactly one        *)
(* message to that chat: a prompt, the validation failure, the result or   *)
(* the invalid-state notice; a prompt names the field of the session's new *)
(* step and the result comes with the end of the session; a reply of a     *)
(* chat without a session is answered by nothing and changes nothing.      *)
C20_OneAnswer ==
  (last = "message" /\ IsReplyText(cur.text)) =>
    IF cur.chat \in DOMAIN prev
    THEN /\ Len(sent) = 1
         /\ sent[1].to = cur.chat
         /\ sent[1].kind \in AnswerKinds
         /\ sent[1].kind \in {"askApprove", "askTrash", "askRoi"} =>
              /\ cur.chat \in DOMAIN sessions
              /\ sent[1].kind = PromptOf(sessions[cur.chat].step)
         /\ sent[1].kind = "wizardResult" <=> cur.chat \notin DOMAIN sessions
    ELSE sent = <<>> /\ sessions = prev

C20_Witness ==
  /\ SubmittedToSession
  /\ cur.text = TMinus100
  /\ prev[cur.chat].step = "approve"
  /\ sent = <<Msg(cur.chat, "askTrash")>>
  /\ sessions[cur.chat].step = "trash"

====
